---- MODULE Spec2Model ----
(***************************************************************************)
(* A model of src/ncams/camera_pose.py (NCams): the entry points           *)
(* charuco_board_detector, multi_camera_pose_estimation,                   *)
(* auto_pose_estimation, get_optimal_pose_method, one_shot_multi_PnP,      *)
(* common_pose_estimation and sequential_pose_estimation.                  *)
(*                                                                         *)
(* One behaviour is one call of one entry point: Init draws the entry      *)
(* point and its arguments, the actions are the statements of its body in  *)
(* program order, and a raised exception ends the call in pc = "raised".   *)
(* Python lists indexed by camera are functions over 0..n-1 (the source's  *)
(* indices); arrays of points are sequences (index k of the source is      *)
(* k+1 here).                                                              *)
(***************************************************************************)
EXTENDS Integers, Sequences, FiniteSets, TLC

\* ------------------------------------------------------------------
\* Bounds of the model
\* ------------------------------------------------------------------
\* most cameras in camera_config['serials']
MaxCameras == 3
\* most captures in cam_image_points / detection_logit
MaxCaptures == 2
\* len(world_points): corners of the target model
NumCorners == 7
\* most images in a camera's image list (charuco_board_detector)
MaxImages == 2
\* most captures given to get_optimal_pose_method
MaxSelImages == 21
\* num_corners given to get_optimal_pose_method
SelCorners == 12
\* most file names of im_list that contain one camera's name (one_shot_multi_PnP)
MaxMatches == 2

\* ------------------------------------------------------------------
\* Program constants
\* ------------------------------------------------------------------
\* `if np.sum(common_points) >= 6`
MinCommonPoints == 6
\* `if num_common_points >= 250`
CommonMethodThreshold == 250

\* ------------------------------------------------------------------
\* Sequences and arrays
\* ------------------------------------------------------------------
Range(s) == {s[k] : k \in DOMAIN s}

\* the sequence a, a+1, ..., b
Asc(a, b) == [k \in 1..(b - a + 1) |-> a + k - 1]

\* the sequence b, b-1, ..., a
Desc(a, b) == [k \in 1..(b - a + 1) |-> b - k + 1]

RECURSIVE SortedSeq(_)
\* the elements of a set of integers, ascending (the order of a boolean mask)
SortedSeq(S) ==
  IF S = {} THEN <<>>
  ELSE LET m == CHOOSE x \in S : \A y \in S : x <= y
       IN <<m>> \o SortedSeq(S \ {m})

RECURSIVE Flatten(_)
\* np.vstack of a list of arrays: the rows of each, in list order
Flatten(ss) == IF ss = <<>> THEN <<>> ELSE Head(ss) \o Flatten(Tail(ss))

RECURSIVE SumSeq(_)
SumSeq(s) == IF s = <<>> THEN 0 ELSE Head(s) + SumSeq(Tail(s))

Cameras(n) == 0..(n - 1)

Corners == 0..(NumCorners - 1)

\* ------------------------------------------------------------------
\* Detections: what charuco_board_detector puts at [image][icam]
\* ------------------------------------------------------------------
\* the `[]` appended when nothing was detected: a list, not an np.ndarray
Placeholder == [isarray |-> FALSE, ids |-> <<>>]

\* an np.ndarray of corner ids, in the detector's order
Arr(s) == [isarray |-> TRUE, ids |-> s]

\* the pixel the detector reports for a corner id in one camera's image
Pixel(img, icam, id) == [image |-> img, cam |-> icam, corner |-> id]

\* the image points that come with a detection: one pixel per id, same order
PointsOf(img, icam, det) ==
  [k \in DOMAIN det.ids |-> Pixel(img, icam, det.ids[k])]

\* the 3D target points, one per corner id (camera_tools.create_world_points)
world_points == [c \in Corners |-> <<c, 0, 0>>]

\* The detections a camera may contribute to a capture: nothing; every
\* corner, ascending or descending; two sets of MinCommonPoints corners that
\* share MinCommonPoints - 1; and arrays holding an id that is no index of
\* the target model (-1, NumCorners).
DetOptions ==
  { Placeholder,
    Arr(Asc(0, NumCorners - 1)),
    Arr(Desc(0, NumCorners - 1)),
    Arr(Asc(0, MinCommonPoints - 1)),
    Arr(Desc(1, MinCommonPoints)),
    Arr(Asc(0, MinCommonPoints - 1) \o <<-1>>),
    Arr(<<-1>>),
    Arr(Asc(0, MinCommonPoints - 1) \o <<NumCorners>>) }

\* The captures of n cameras: every camera the same detection, but for at
\* most one camera, the first or the last, that has another.
Captures(n) ==
  { [icam \in Cameras(n) |-> IF icam = odd THEN b ELSE a] :
      a \in DetOptions, b \in DetOptions, odd \in {0, n - 1} }

\* ------------------------------------------------------------------
\* State
\* ------------------------------------------------------------------
VARIABLES
  fn,                      \* the entry point called
  pc,                      \* the statement the call is at
  err,                     \* the exception raised (NoError while none)
  stdout,                  \* the lines printed
  ret,                     \* the value returned
  serials,                 \* camera_config['serials']
  reference_camera_serial, \* camera_config['reference_camera_serial']
  board_type,              \* camera_config['board_type']
  num_captures,            \* len(cam_image_points) = len(detection_logit)
  ireference_cam,
  secondary_idx,
  image,                   \* captures consumed by the zip loop
  detl,                    \* the loop's detection ids, per camera
  cip,                     \* the loop's image points, per camera
  point_logit,
  common_points,
  filtered_object_points,
  filtered_image_points,
  undistorted_points,
  secondary_cam,
  stereo_call,             \* the arguments cv2.stereoCalibrate was given
  reprojection_error,
  triangulated_points,
  pnp_calls,               \* the arguments of each cv2.solvePnP call
  world_orientations,
  world_locations,
  seen_invalid_id,         \* history: a consumed capture held an id outside the target
  shared_counts,           \* history: the shared-corner count of each consumed capture
                           \* that had MinCommonPoints or more
  input_array,             \* get_optimal_pose_method's detections, [image][cam]
  cam_image_list,          \* charuco_board_detector: each camera's image list
  images_read,             \* the (camera, image) pairs given to cv2.imread
  cam_image_points,        \* charuco_board_detector's outputs
  cam_charuco_ids,
  im_name_len,             \* one_shot_multi_PnP: len(im_name), per camera
  asked,                   \* the file dialogs shown: camera and the file the user chose
  im_path,                 \* the images given to cv2.imread, in order
  charuco_ids              \* the ids detected, per camera processed

vars == << fn, pc, err, stdout, ret, serials, reference_camera_serial, board_type,
           num_captures, ireference_cam, secondary_idx, image, detl, cip,
           point_logit, common_points, filtered_object_points,
           filtered_image_points, undistorted_points, secondary_cam, stereo_call,
           reprojection_error, triangulated_points, pnp_calls,
           world_orientations, world_locations, seen_invalid_id, shared_counts,
           input_array, cam_image_list, images_read, cam_image_points,
           cam_charuco_ids, im_name_len, asked, im_path, charuco_ids >>

num_cameras == Len(serials)

\* Python's None
None == [kind |-> "None"]

\* no exception raised
NoError == [type |-> "", line |-> 0]

\* Raising an exception ends the call; line is the source line that raises
Raise(e, line) == pc' = "raised" /\ err' = [type |-> e, line |-> line]

\* ------------------------------------------------------------------
\* The arguments of a call
\* ------------------------------------------------------------------
\* camera serials are 101, 102, ...; a serial list holds the first n of them,
\* descending, so that a serial's position in the list is not its rank
SerialLists == { Desc(101, 100 + n) : n \in 0..MaxCameras }

\* the reference serials tried with a serial list: 100, the serial of no
\* camera, and the list's first and last serial
ReferenceSerials(s) == {100} \cup {s[k] : k \in {1, Len(s)} \cap DOMAIN s}

BoardTypes == {"charuco", "checkerboard"}

\* reprojection errors cv2.stereoCalibrate may report, as <<numerator, denominator>>
\* (0.5, 1.0 and 1.5 pixels)
ReprojErrors == { <<1, 2>>, <<1, 1>>, <<3, 2>> }

\* ------------------------------------------------------------------
\* common_pose_estimation: the correspondence filter
\* ------------------------------------------------------------------
\* list.index: the position (from 0) of the first occurrence
ListIndex(s, x) == (CHOOSE k \in DOMAIN s : s[k] = x /\ \A j \in 1..(k - 1) : s[j] # x) - 1

\* a slip of the mask: every camera index, the reference's too
SecondaryIdxUnmasked(n, iref) == SortedSeq(Cameras(n))

\* cam_idx[cam_idx != ireference_cam]
SecondaryIdx(n, iref) == SortedSeq({i \in Cameras(n) : i # iref})

\* an id that numpy accepts as a row index of an array of NumCorners rows
RowInRange(id) == -NumCorners <= id /\ id < NumCorners

\* the row numpy addresses: a negative index counts from the end
NumpyRow(id) == IF id < 0 THEN NumCorners + id ELSE id

\* an id that is no index of the target model
InvalidId(id) == id < 0 \/ id >= NumCorners

\* the corner ids of `corners` that occur in the id array of every camera of d
OccursInAll(d, corners) ==
  {c \in corners : \A icam \in DOMAIN d : d[icam].isarray /\ c \in Range(d[icam].ids)}

HasInvalidId(d) ==
  \E icam \in DOMAIN d : \E k \in DOMAIN d[icam].ids : InvalidId(d[icam].ids[k])

\* the (camera, position) pairs whose id numpy rejects with IndexError
BadRows(d) ==
  UNION { { <<icam, k>> : k \in {j \in DOMAIN d[icam].ids :
                                  d[icam].isarray /\ ~RowInRange(d[icam].ids[j])} } :
          icam \in DOMAIN d }

\* the loops of lines 463-467 raise at the first such pair, in loop order
LogitRaises(d) == BadRows(d) # {}

Before(a, b) == a[1] < b[1] \/ (a[1] = b[1] /\ a[2] < b[2])

\* the rows of point_logit a camera's array sets before the pairs in bad
RowsSet(d, icam, bad) ==
  IF d[icam].isarray
  THEN { NumpyRow(d[icam].ids[k]) :
           k \in {j \in DOMAIN d[icam].ids : \A b \in bad : Before(<<icam, j>>, b)} }
  ELSE {}

\* point_logit after the loops of lines 462-467 (or at the IndexError)
PointLogit(d, n) ==
  LET bad == BadRows(d)
      rows == [icam \in Cameras(n) |-> RowsSet(d, icam, bad)]
  IN [c \in Corners, icam \in Cameras(n) |-> c \in rows[icam]]

\* sum_point_logit == num_cameras
CommonPoints(pl, n) ==
  [c \in Corners |-> Cardinality({icam \in Cameras(n) : pl[c, icam]}) = n]

\* a slip of the order: the shared corners from the highest id down
CommonIdxDescending(cp) ==
  LET up == SortedSeq({c \in Corners : cp[c]})
  IN [k \in DOMAIN up |-> up[Len(up) + 1 - k]]

\* corner_idx[common_points]
CommonIdx(cp) == SortedSeq({c \in Corners : cp[c]})

\* a slip of the comparison: more than MinCommonPoints
AcceptsAbove(cp) == Cardinality({c \in Corners : cp[c]}) > MinCommonPoints

\* a slip of the threshold: one shared corner fewer is enough
AcceptsFromFive(cp) == Cardinality({c \in Corners : cp[c]}) >= MinCommonPoints - 1

\* np.sum(common_points) >= 6
Accepts(cp) == Cardinality({c \in Corners : cp[c]}) >= MinCommonPoints

\* np.where(temp_ids == corner)[0] (positions from 1)
Where(temp_ids, corner) == {k \in DOMAIN temp_ids : temp_ids[k] = corner}

\* int(...) of an array that does not hold exactly one element raises TypeError
LookupRaises(temp_ids, cs) == \E r \in DOMAIN cs : Cardinality(Where(temp_ids, cs[r])) # 1

\* a slip of the lookup: running_idx in the place of idx
TempIdxRunning(temp_ids, cs) == [r \in DOMAIN cs |-> r]

\* idx, for each shared corner of cs in turn: its position in the camera's own ids
TempIdx(temp_ids, cs) ==
  [r \in DOMAIN cs |-> CHOOSE k \in Where(temp_ids, cs[r]) : TRUE]

\* temp_corners[running_idx, :] = temp_points[idx, :, :]
TempCorners(temp_points, idx) == [r \in DOMAIN idx |-> temp_points[idx[r]]]

\* world_points[common_points, :]: the rows of the shared corners cs, ascending
ObjectPoints(cs) == [r \in DOMAIN cs |-> world_points[cs[r]]]

\* What one pass of the loop of lines 460-484 computes from a capture d of n
\* cameras: point_logit, common_points, the shared corners, whether line 467
\* raises, the cameras whose lookup at line 481 raises, and idx per camera.
FilterPass(d, n) ==
  LET pl == PointLogit(d, n)
      cp == CommonPoints(pl, n)
      cs == CommonIdx(cp)
      accepted == ~LogitRaises(d) /\ Accepts(cp)
      failing == IF accepted
                 THEN {icam \in Cameras(n) : LookupRaises(d[icam].ids, cs)}
                 ELSE {}
  IN [ d |-> d,
       point_logit |-> pl,
       common_points |-> cp,
       corners |-> cs,
       index_error |-> LogitRaises(d),
       accepted |-> accepted,
       failing |-> failing,
       idx |-> [icam \in Cameras(n) |->
                  IF accepted /\ icam \notin failing
                  THEN TempIdx(d[icam].ids, cs) ELSE <<>>] ]

\* the passes over every capture of n cameras
FilterPasses ==
  [n \in 1..MaxCameras |-> {FilterPass(d, n) : d \in Captures(n)}]

\* where the zip loop goes after consuming i captures
LoopNext(i) == IF i < num_captures THEN "filter" ELSE "undistort"

filter_vars == << image, detl, cip, point_logit, common_points,
                  filtered_object_points, filtered_image_points, seen_invalid_id,
                  shared_counts >>

solver_vars == << undistorted_points, secondary_cam, stereo_call, reprojection_error,
                  triangulated_points, pnp_calls, world_orientations, world_locations >>

config_vars == << fn, serials, reference_camera_serial, board_type, num_captures,
                  input_array, cam_image_list, im_name_len >>

detector_vars == << images_read, cam_image_points, cam_charuco_ids >>

oneshot_vars == << asked, im_path, charuco_ids >>

\* lines 441-459 (and 486-487 for a checkerboard)
CommonEntry ==
  /\ fn = "common_pose_estimation" /\ pc = "entry"
  /\ IF reference_camera_serial \notin Range(serials)
     THEN /\ Raise("ValueError", 446)
          /\ UNCHANGED << ireference_cam, secondary_idx, filtered_object_points,
                          filtered_image_points >>
     ELSE /\ ireference_cam' = ListIndex(serials, reference_camera_serial)
          /\ secondary_idx' = SecondaryIdx(num_cameras, ireference_cam')
          /\ IF board_type = "charuco"
             THEN /\ filtered_object_points' = <<>>
                  /\ filtered_image_points' = [icam \in Cameras(num_cameras) |-> <<>>]
                  /\ pc' = LoopNext(0) /\ err' = err
             ELSE /\ Raise("NotImplementedError", 487)
                  /\ UNCHANGED << filtered_object_points, filtered_image_points >>
  /\ UNCHANGED << config_vars, stdout, ret, image, detl, cip, point_logit, common_points,
                  seen_invalid_id, shared_counts, solver_vars, detector_vars,
                  oneshot_vars >>

\* lines 460-484: one pass of the loop over zip(cam_image_points, detection_logit)
FilterCapture ==
  /\ fn = "common_pose_estimation" /\ pc = "filter"
  /\ \E pass \in FilterPasses[num_cameras] :
       /\ detl' = pass.d
       /\ cip' = [icam \in Cameras(num_cameras) |-> PointsOf(image, icam, pass.d[icam])]
       /\ image' = image + 1
       /\ seen_invalid_id' = (seen_invalid_id \/ HasInvalidId(pass.d))
       /\ shared_counts' =
            LET k == Cardinality(OccursInAll(pass.d, Corners))
            IN IF k >= MinCommonPoints THEN Append(shared_counts, k) ELSE shared_counts
       /\ point_logit' = pass.point_logit
       /\ IF pass.index_error
          THEN /\ Raise("IndexError", 467)
               /\ UNCHANGED << common_points, filtered_object_points,
                               filtered_image_points >>
          ELSE /\ common_points' = pass.common_points
               /\ IF pass.accepted
                  THEN /\ filtered_object_points' =
                            Append(filtered_object_points, ObjectPoints(pass.corners))
                       /\ filtered_image_points' =
                            [icam \in Cameras(num_cameras) |->
                               IF \A f \in pass.failing : icam < f
                               THEN Append(filtered_image_points[icam],
                                           TempCorners(cip'[icam], pass.idx[icam]))
                               ELSE filtered_image_points[icam]]
                       /\ IF pass.failing # {}
                          THEN Raise("TypeError", 481)
                          ELSE pc' = LoopNext(image') /\ err' = err
                  ELSE /\ UNCHANGED << filtered_object_points, filtered_image_points >>
                       /\ pc' = LoopNext(image') /\ err' = err
  /\ UNCHANGED << config_vars, stdout, ret, ireference_cam, secondary_idx, solver_vars,
                  detector_vars, oneshot_vars >>

\* ------------------------------------------------------------------
\* common_pose_estimation: the solver
\* ------------------------------------------------------------------
\* cv2.undistortPoints: one undistorted point per point, same order
UndistortPoint(icam, p) == [und |-> p, K |-> icam]

UndistortPoints(icam, pts) ==
  LET flat == [k \in DOMAIN pts |-> pts[k]]
  IN [k \in DOMAIN flat |-> UndistortPoint(icam, flat[k])]

\* cv2.triangulatePoints, normalized: one 3D point per pair of points
TriPoint(a, b) == [primary |-> a, secondary |-> b]

\* a slip of the comparison: 1 or more
PoorStereoCalibrationFromOne(e) == e[1] >= e[2]

\* `if reprojection_error > 1`
PoorStereoCalibration(e) == e[1] > e[2]

Warning == "Poor initial stereo-calibration. Subsequent pose estimates may be innacurate."

\* a slip: np.vstack taken to return an empty array for an empty list
VstackNeverRaises(arrays) == FALSE

\* np.vstack raises ValueError when given an empty list of arrays
VstackRaises(arrays) == arrays = <<>>

\* lines 489-497
Undistort ==
  /\ fn = "common_pose_estimation" /\ pc = "undistort"
  /\ IF \E icam \in Cameras(num_cameras) : VstackRaises(filtered_image_points[icam])
     THEN /\ Raise("ValueError", 496)
          /\ UNCHANGED undistorted_points
     ELSE /\ undistorted_points' =
               [icam \in Cameras(num_cameras) |->
                  UndistortPoints(icam, Flatten(filtered_image_points[icam]))]
          /\ pc' = "stereo" /\ err' = err
  /\ UNCHANGED << config_vars, stdout, ret, ireference_cam, secondary_idx, filter_vars,
                  secondary_cam, stereo_call, reprojection_error, triangulated_points,
                  pnp_calls, world_orientations, world_locations, detector_vars, oneshot_vars >>

\* a slip of the index: the last non-reference camera
SecondaryCamLast(idx) == idx[Len(idx)]

\* secondary_idx[0]
SecondaryCam(idx) == idx[1]

\* lines 499-513
StereoCalibrate ==
  /\ fn = "common_pose_estimation" /\ pc = "stereo"
  /\ IF secondary_idx = <<>>
     THEN /\ Raise("IndexError", 500)
          /\ UNCHANGED << secondary_cam, stereo_call, reprojection_error, stdout >>
     ELSE /\ secondary_cam' = SecondaryCam(secondary_idx)
          /\ stereo_call' =
               [objectPoints |-> filtered_object_points,
                imagePoints1 |-> filtered_image_points[ireference_cam],
                imagePoints2 |-> filtered_image_points[secondary_cam'],
                cameraMatrix1 |-> ireference_cam,
                cameraMatrix2 |-> secondary_cam']
          /\ \E e \in ReprojErrors :
               /\ reprojection_error' = e
               /\ stdout' = IF PoorStereoCalibration(e)
                            THEN Append(stdout, Warning) ELSE stdout
          /\ pc' = "triangulate" /\ err' = err
  /\ UNCHANGED << config_vars, ret, ireference_cam, secondary_idx, filter_vars,
                  undistorted_points, triangulated_points, pnp_calls,
                  world_orientations, world_locations, detector_vars, oneshot_vars >>

\* lines 515-532
Triangulate ==
  /\ fn = "common_pose_estimation" /\ pc = "triangulate"
  /\ triangulated_points' =
       [k \in DOMAIN undistorted_points[ireference_cam] |->
          TriPoint(undistorted_points[ireference_cam][k],
                   undistorted_points[secondary_cam][k])]
  /\ pc' = "pnp"
  /\ UNCHANGED << config_vars, err, stdout, ret, ireference_cam, secondary_idx,
                  filter_vars, undistorted_points, secondary_cam, stereo_call,
                  reprojection_error, pnp_calls, world_orientations, world_locations,
                  detector_vars, oneshot_vars >>

\* the camera whose points and intrinsics the icam-th pass of the loop gives to PnP
PnPCamera(icam) == icam

\* a slip of the argument: points triangulated from the camera's own view
PnPObjectPointsOwn(icam) ==
  [k \in DOMAIN undistorted_points[icam] |->
     TriPoint(undistorted_points[icam][k], undistorted_points[secondary_cam][k])]

\* np.transpose(triangulated_points), the object points of the icam-th PnP call
PnPObjectPoints(icam) == triangulated_points

\* lines 534-539: one pass of the loop, icam = len(world_orientations)
SolvePnP ==
  /\ fn = "common_pose_estimation" /\ pc = "pnp"
  /\ Len(world_orientations) < num_cameras
  /\ LET icam == Len(world_orientations)
         call == [objectPoints |-> PnPObjectPoints(icam),
                  imagePoints |-> Flatten(filtered_image_points[PnPCamera(icam)]),
                  cameraMatrix |-> PnPCamera(icam)]
     IN /\ pnp_calls' = Append(pnp_calls, call)
        /\ world_orientations' = Append(world_orientations, <<"rvec", Len(pnp_calls')>>)
        /\ world_locations' = Append(world_locations, <<"tvec", Len(pnp_calls')>>)
  /\ UNCHANGED << config_vars, pc, err, stdout, ret, ireference_cam, secondary_idx,
                  filter_vars, undistorted_points, secondary_cam, stereo_call,
                  reprojection_error, triangulated_points, detector_vars, oneshot_vars >>

\* a slip of the index: the reference camera's pose for every serial
DictIndexReference(icam) == ireference_cam

\* the index of world_locations / world_orientations read for the icam-th serial
DictIndex(icam) == icam

\* lines 541-548: the last entry written for a serial stays
PoseDicts ==
  [serial \in Range(serials) |->
     LET icam == (CHOOSE k \in DOMAIN serials :
                    serials[k] = serial /\ \A j \in DOMAIN serials :
                                             serials[j] = serial => j <= k) - 1
     IN [serial |-> serial,
         world_location |-> world_locations[DictIndex(icam) + 1],
         world_orientation |-> world_orientations[DictIndex(icam) + 1]]]

\* lines 550-557
PoseEstimationConfig ==
  [kind |-> "dict",
   serials |-> serials,
   world_locations |-> world_locations,
   world_orientations |-> world_orientations,
   path |-> "pose_estimation_path",
   filename |-> "pose_estimation_filename",
   dicts |-> PoseDicts]

\* lines 541-559
CommonReturn ==
  /\ fn = "common_pose_estimation" /\ pc = "pnp"
  /\ Len(world_orientations) = num_cameras
  /\ ret' = PoseEstimationConfig
  /\ pc' = "returned"
  /\ UNCHANGED << config_vars, err, stdout, ireference_cam, secondary_idx, filter_vars,
                  solver_vars, detector_vars, oneshot_vars >>

all_but_ctl == << config_vars, stdout, ret, ireference_cam, secondary_idx, filter_vars,
                  solver_vars, detector_vars, oneshot_vars >>

all_but_ctl_ret == << config_vars, stdout, ireference_cam, secondary_idx, filter_vars,
                      solver_vars, detector_vars, oneshot_vars >>

\* ------------------------------------------------------------------
\* multi_camera_pose_estimation, get_optimal_pose_method
\* ------------------------------------------------------------------
\* line 182: the body opens with `raise NotImplementedError`
MultiCameraPoseEstimation ==
  /\ fn = "multi_camera_pose_estimation" /\ pc = "entry"
  /\ Raise("NotImplementedError", 182)
  /\ UNCHANGED all_but_ctl

\* the empty list of line 222's `return[]`
EmptyList == [kind |-> "list", value |-> <<>>]

\* a slip: the body runs on to line 222's `return[]`
AutoBodyReturnsEmpty == pc' = "returned" /\ err' = err /\ ret' = EmptyList

\* line 201: the body opens with `raise NotImplementedError`; lines 202-229 never run
AutoBody == Raise("NotImplementedError", 201) /\ ret' = ret

\* lines 189-229
AutoPoseEstimation ==
  /\ fn = "auto_pose_estimation" /\ pc = "entry"
  /\ AutoBody
  /\ UNCHANGED all_but_ctl_ret

\* line 592: the body is `raise NotImplementedError`
SequentialPoseEstimation ==
  /\ fn = "sequential_pose_estimation" /\ pc = "entry"
  /\ Raise("NotImplementedError", 592)
  /\ UNCHANGED all_but_ctl

\* line 244: the body opens with `raise NotImplementedError`; lines 245-269 never run
GetOptimalPoseMethod ==
  /\ fn = "get_optimal_pose_method" /\ pc = "entry"
  /\ Raise("NotImplementedError", 244)
  /\ UNCHANGED all_but_ctl

\* The detections given to get_optimal_pose_method: nimg captures of ncam
\* cameras, each camera seeing the first k corners, the first klast in the
\* last capture.
SelInput(nimg, ncam, k, klast) ==
  [img \in 1..nimg |->
     [icam \in Cameras(ncam) |->
        Arr(Asc(0, (IF img = nimg THEN klast ELSE k) - 1))]]

SelInputs ==
  { SelInput(nimg, ncam, k, klast) :
      nimg \in 1..MaxSelImages, ncam \in 2..MaxCameras,
      k \in {0, SelCorners}, klast \in 0..SelCorners }

\* ------------------------------------------------------------------
\* charuco_board_detector
\* ------------------------------------------------------------------
\* a slip of the comparison: num_images[0, 0] alone against the mean
FirstEqualsMean(counts) ==
  counts = <<>> \/ counts[1] * Len(counts) = SumSeq(counts)

\* np.ma.allequal(num_images, np.mean(num_images)): every count equals the
\* mean, sum / n (count = sum / n exactly when count * n = sum)
AllEqualMean(counts) ==
  LET n == Len(counts)
  IN \A k \in DOMAIN counts : counts[k] * n = SumSeq(counts)

\* what detection finds in one image: no marker (ids is None), markers but
\* no interpolated corner (charuco_corners is no np.ndarray), or corners
DetectOutcomes == {"no_markers", "no_corners", "corners"}

\* the ids appended to im_ids for an outcome
DetectedIds(outcome) ==
  IF outcome = "corners" THEN Arr(Desc(0, NumCorners - 1)) ELSE Placeholder

\* lines 43-65; cam_image_list[icam+1] is the length of camera icam's image list
DetectorListImages ==
  /\ fn = "charuco_board_detector" /\ pc = "entry"
  /\ IF ~AllEqualMean(cam_image_list)
     THEN Raise("Exception", 63)
     ELSE IF cam_image_list = <<>>
     THEN Raise("IndexError", 65)
     ELSE pc' = "detect" /\ err' = err
  /\ UNCHANGED all_but_ctl

\* list.append on a Python list kept as a function over 0..len-1
ListAppend(list, x) ==
  [i \in 0..Cardinality(DOMAIN list) |-> IF i \in DOMAIN list THEN list[i] ELSE x]

\* a slip of the branches: nothing appended for a camera without a detection
AppendIfDetected(list, found, entry, empty) ==
  IF found THEN ListAppend(list, entry) ELSE list

\* lines 77-89: every branch appends once, the entry or the empty `[]`
AppendDetection(list, found, entry, empty) ==
  ListAppend(list, IF found THEN entry ELSE empty)

RECURSIVE ImageLists(_, _, _)
\* lines 70-89: im_ids and image_points of image img after the passes of the
\* inner loop for the cameras below icam
ImageLists(img, outcome, icam) ==
  IF icam = 0
  THEN [im_ids |-> <<>>, image_points |-> <<>>]
  ELSE LET prev == ImageLists(img, outcome, icam - 1)
           det == DetectedIds(outcome[icam - 1])
       IN [im_ids |->
             AppendDetection(prev.im_ids, det.isarray, det, Placeholder),
           image_points |->
             AppendDetection(prev.image_points, det.isarray,
                             PointsOf(img, icam - 1, det), <<>>)]

\* lines 69-92: one pass of the loop over the synced images
DetectorImage ==
  /\ fn = "charuco_board_detector" /\ pc = "detect"
  /\ Len(cam_charuco_ids) < cam_image_list[1]
  /\ \E outcome \in [Cameras(num_cameras) -> DetectOutcomes] :
       LET img == Len(cam_charuco_ids)
       IN \E lists \in {ImageLists(img, outcome, num_cameras)} :
            /\ images_read' = images_read \cup {<<icam, img>> : icam \in Cameras(num_cameras)}
            /\ cam_charuco_ids' = Append(cam_charuco_ids, lists.im_ids)
            /\ cam_image_points' = Append(cam_image_points, lists.image_points)
  /\ UNCHANGED << config_vars, pc, err, stdout, ret, ireference_cam, secondary_idx,
                  filter_vars, solver_vars, oneshot_vars >>

\* line 94
DetectorReturn ==
  /\ fn = "charuco_board_detector" /\ pc = "detect"
  /\ Len(cam_charuco_ids) = cam_image_list[1]
  /\ ret' = [kind |-> "tuple", cam_image_points |-> cam_image_points,
             cam_charuco_ids |-> cam_charuco_ids]
  /\ pc' = "returned"
  /\ UNCHANGED << config_vars, err, stdout, ireference_cam, secondary_idx, filter_vars,
                  solver_vars, detector_vars, oneshot_vars >>

\* ------------------------------------------------------------------
\* one_shot_multi_PnP
\* ------------------------------------------------------------------
\* charuco_ids is None when the image shows no corner of the board
NotDetected == [isarray |-> FALSE, ids |-> <<>>]

\* What cv2 may detect in one camera's image of the board: nothing, or ids
\* of the board (always indices of world_points), in the detector's order.
OneShotDetections ==
  { NotDetected,
    Arr(Asc(0, NumCorners - 1)),
    Arr(Desc(0, NumCorners - 1)),
    Arr(Asc(0, MinCommonPoints - 1)),
    Arr(<<NumCorners - 1, 0, 1>>) }

\* the path of the j-th file of im_list whose name contains camera icam's name
ImFile(icam, j) == [kind |-> "str", cam |-> icam, index |-> j]

\* im_name, as paths
ImName(icam) == { ImFile(icam, j) : j \in 0..(im_name_len[icam] - 1) }

\* what easygui.fileopenbox may return: a file the user picked, or None
FileChoices(icam) == ImName(icam) \cup {None}

\* line 341: `cwd = os.getcwd` binds the function, it does not call it
cwd == [kind |-> "builtin_function_or_method", name |-> "getcwd"]

\* os.chdir raises TypeError for an argument that is no path
ChdirRaises(path) == path.kind # "str"

SelectMessage(icam) ==
  <<"--> Multiple images contain the camera name. Select the correct file for", icam>>

\* a slip of the lookup: the world points of the ids in ascending order
OneShotWorldPointsSorted(ids) == ObjectPoints(SortedSeq(Range(ids)))

\* lines 367-370: world_points[cid, :, :] for each cid of charuco_ids, stacked
OneShotWorldPoints(ids) == [k \in DOMAIN ids |-> world_points[ids[k]]]

\* lines 323-335
OneShotEntry ==
  /\ fn = "one_shot_multi_PnP" /\ pc = "entry"
  /\ pc' = "camera"
  /\ world_locations' = <<>> /\ world_orientations' = <<>>
  /\ UNCHANGED << config_vars, err, stdout, ret, ireference_cam, secondary_idx,
                  filter_vars, undistorted_points, secondary_cam, stereo_call,
                  reprojection_error, triangulated_points, pnp_calls, detector_vars,
                  oneshot_vars >>

\* lines 336-378: one pass of the loop over the cameras, icam = len(world_locations)
OneShotCamera ==
  /\ fn = "one_shot_multi_PnP" /\ pc = "camera"
  /\ Len(world_locations) < num_cameras
  /\ LET icam == Len(world_locations)
     IN IF im_name_len[icam] > 1
        THEN \E chosen \in FileChoices(icam) :
               /\ stdout' = Append(stdout, SelectMessage(icam))
               /\ asked' = Append(asked, [cam |-> icam, chosen |-> chosen])
               /\ IF ChdirRaises(cwd)
                  THEN /\ Raise("TypeError", 347)
                       /\ UNCHANGED << im_path, charuco_ids, pnp_calls,
                                       world_orientations, world_locations >>
                  ELSE FALSE
        ELSE IF im_name_len[icam] = 0
        THEN /\ Raise("IndexError", 349)
             /\ UNCHANGED << stdout, asked, im_path, charuco_ids, pnp_calls,
                             world_orientations, world_locations >>
        ELSE \E det \in OneShotDetections :
               /\ im_path' = Append(im_path, [cam |-> icam, file |-> ImFile(icam, 0)])
               /\ charuco_ids' = Append(charuco_ids, det)
               /\ IF ~det.isarray
                  THEN /\ Raise("TypeError", 364)
                       /\ UNCHANGED << pnp_calls, world_orientations, world_locations >>
                  ELSE /\ pnp_calls' =
                            Append(pnp_calls,
                                   [objectPoints |-> OneShotWorldPoints(det.ids),
                                    imagePoints |->
                                      UndistortPoints(icam, PointsOf(0, icam, det)),
                                    cameraMatrix |-> icam])
                       /\ world_orientations' =
                            Append(world_orientations, <<"rvec", Len(pnp_calls')>>)
                       /\ world_locations' =
                            Append(world_locations, <<"tvec", Len(pnp_calls')>>)
                       /\ pc' = pc /\ err' = err
               /\ UNCHANGED << stdout, asked >>
  /\ UNCHANGED << config_vars, ret, ireference_cam, secondary_idx, filter_vars,
                  undistorted_points, secondary_cam, stereo_call, reprojection_error,
                  triangulated_points, detector_vars >>

\* lines 381-387: the last entry written for a serial stays
OneShotDicts ==
  [serial \in Range(serials) |->
     LET icam == (CHOOSE k \in DOMAIN serials :
                    serials[k] = serial /\ \A j \in DOMAIN serials :
                                             serials[j] = serial => j <= k) - 1
     IN [serial |-> serial,
         world_location |-> world_locations[icam + 1],
         world_orientation |-> world_orientations[icam + 1]]]

\* lines 389-396
OneShotConfig ==
  [kind |-> "dict",
   serials |-> serials,
   world_locations |-> world_locations,
   world_orientations |-> world_orientations,
   path |-> "pose_estimation_path",
   filename |-> "pose_estimation_filename",
   dicts |-> OneShotDicts]

\* lines 380-398
OneShotReturn ==
  /\ fn = "one_shot_multi_PnP" /\ pc = "camera"
  /\ Len(world_locations) = num_cameras
  /\ ret' = OneShotConfig
  /\ pc' = "returned"
  /\ UNCHANGED << config_vars, err, stdout, ireference_cam, secondary_idx, filter_vars,
                  solver_vars, detector_vars, oneshot_vars >>

\* ------------------------------------------------------------------
\* The specification
\* ------------------------------------------------------------------
EntryPoints == { "common_pose_estimation", "multi_camera_pose_estimation",
                 "get_optimal_pose_method", "charuco_board_detector",
                 "auto_pose_estimation", "sequential_pose_estimation",
                 "one_shot_multi_PnP" }

Init ==
  /\ fn \in EntryPoints
  /\ pc = "entry" /\ err = NoError /\ stdout = <<>> /\ ret = None
  /\ serials \in SerialLists
  /\ IF fn = "common_pose_estimation"
     THEN /\ reference_camera_serial \in ReferenceSerials(serials)
          /\ board_type \in BoardTypes
          /\ num_captures \in 0..MaxCaptures
     ELSE /\ reference_camera_serial = 100
          /\ board_type = "charuco"
          /\ num_captures = 0
  /\ IF fn = "get_optimal_pose_method"
     THEN input_array \in SelInputs
     ELSE input_array = <<>>
  /\ IF fn = "charuco_board_detector"
     THEN cam_image_list \in [1..Len(serials) -> 0..MaxImages]
     ELSE cam_image_list = <<>>
  /\ IF fn = "one_shot_multi_PnP"
     THEN im_name_len \in [Cameras(Len(serials)) -> 0..MaxMatches]
     ELSE im_name_len = <<>>
  /\ ireference_cam = -1 /\ secondary_idx = <<>>
  /\ image = 0 /\ detl = <<>> /\ cip = <<>>
  /\ point_logit = <<>> /\ common_points = <<>>
  /\ filtered_object_points = <<>> /\ filtered_image_points = <<>>
  /\ undistorted_points = <<>> /\ secondary_cam = -1
  /\ stereo_call = <<>> /\ reprojection_error = <<>>
  /\ triangulated_points = <<>> /\ pnp_calls = <<>>
  /\ world_orientations = <<>> /\ world_locations = <<>>
  /\ seen_invalid_id = FALSE /\ shared_counts = <<>>
  /\ asked = <<>> /\ im_path = <<>> /\ charuco_ids = <<>>
  /\ images_read = {} /\ cam_image_points = <<>> /\ cam_charuco_ids = <<>>

Next ==
  \/ CommonEntry
  \/ FilterCapture
  \/ Undistort
  \/ StereoCalibrate
  \/ Triangulate
  \/ SolvePnP
  \/ CommonReturn
  \/ MultiCameraPoseEstimation
  \/ GetOptimalPoseMethod
  \/ DetectorListImages
  \/ DetectorImage
  \/ DetectorReturn
  \/ AutoPoseEstimation
  \/ SequentialPoseEstimation
  \/ OneShotEntry
  \/ OneShotCamera
  \/ OneShotReturn

Spec == Init /\ [][Next]_vars

\* ------------------------------------------------------------------
\* Claims
\* ------------------------------------------------------------------
InCommon == fn = "common_pose_estimation"

\* a pass of the filter loop has just ended without an exception
PassDone == InCommon /\ image > 0 /\ err = NoError

\* C1: after a pass of the correspondence filter, a corner id of the target
\* is in common_points if and only if it occurs in the detection-id array of
\* every camera of the capture (so an empty placeholder empties the set).
C1_SharedIffInEveryCamera ==
  PassDone =>
    \A c \in Corners : common_points[c] <=> c \in OccursInAll(detl, Corners)

\* C2: for every accepted capture the 3D array and every camera's 2D array
\* have the same length, and index i of each belongs to the same corner id,
\* whatever the order of the ids in a camera's detection.
C2_AlignedPerCapture ==
  (InCommon /\ pc \notin {"entry", "raised"}) =>
    \A icam \in Cameras(num_cameras) :
      /\ Len(filtered_image_points[icam]) = Len(filtered_object_points)
      /\ \A j \in DOMAIN filtered_object_points :
           /\ Len(filtered_image_points[icam][j]) = Len(filtered_object_points[j])
           /\ \A i \in DOMAIN filtered_object_points[j] :
                \E c \in Corners :
                  /\ filtered_object_points[j][i] = world_points[c]
                  /\ filtered_image_points[icam][j][i].corner = c
                  /\ filtered_image_points[icam][j][i].cam = icam

\* C2's case: captures were accepted, the last one from cameras whose id
\* arrays differ, one of them descending
C2_Witness ==
  /\ PassDone /\ pc = "filter"
  /\ Len(filtered_object_points) = image
  /\ \E a \in Cameras(num_cameras), b \in Cameras(num_cameras) :
       /\ detl[a].ids # detl[b].ids
       /\ detl[a].ids[1] > detl[a].ids[2]

\* C3: a pass of the filter accepts its capture exactly when the shared
\* corner count is at least MinCommonPoints (6): with fewer (5) the filtered
\* arrays do not change, with 6 or more the 3D array and every camera's 2D
\* array gain one entry of that many points.
C3_AcceptsFromSix ==
  [][ (InCommon /\ pc = "filter" /\ pc' # "raised") =>
        LET k == Cardinality(OccursInAll(detl', Corners))
            m == Len(filtered_object_points)
        IN IF k >= MinCommonPoints
           THEN /\ Len(filtered_object_points') = m + 1
                /\ SubSeq(filtered_object_points', 1, m) = filtered_object_points
                /\ Len(filtered_object_points'[m + 1]) = k
                /\ \A icam \in Cameras(num_cameras) :
                     /\ Len(filtered_image_points'[icam]) = m + 1
                     /\ SubSeq(filtered_image_points'[icam], 1, m)
                          = filtered_image_points[icam]
                     /\ Len(filtered_image_points'[icam][m + 1]) = k
           ELSE /\ filtered_object_points' = filtered_object_points
                /\ filtered_image_points' = filtered_image_points ]_vars

\* C3's case: a capture of exactly 6 shared corners was accepted and then a
\* capture of exactly 5 was dropped
C3_Witness ==
  /\ PassDone /\ image = 2
  /\ Len(filtered_object_points) = 1
  /\ Len(filtered_object_points[1]) = MinCommonPoints
  /\ \A icam \in Cameras(num_cameras) :
       /\ Len(filtered_image_points[icam]) = 1
       /\ Len(filtered_image_points[icam][1]) = MinCommonPoints
  /\ Cardinality(OccursInAll(detl, Corners)) = MinCommonPoints - 1

InSelector == fn = "get_optimal_pose_method"

\* the call returned the string v
Returned(v) == pc = "returned" /\ ret = [kind |-> "str", value |-> v]

\* the total shared-point count of the captures arr: the sum, over the
\* captures, of the number of corner ids seen by every camera
SharedTotal(arr) ==
  SumSeq([img \in DOMAIN arr |->
            Cardinality(OccursInAll(arr[img], 0..(SelCorners - 1)))])

\* C4: get_optimal_pose_method returns 'common' when the total shared-point
\* count is at least 250 and 'sequential-stereo' when it is below 250.
C4_SelectorThreshold ==
  (InSelector /\ pc # "entry") =>
    Returned(IF SharedTotal(input_array) >= CommonMethodThreshold
             THEN "common" ELSE "sequential-stereo")

\* C5: the selector's total is the sum over every capture of the corners
\* seen by all cameras, with no floor of 6: 3 cameras seeing all 12 corners in
\* each of 20 captures total 240, and the answer is 'sequential-stereo'.
C5_TwentyCapturesOfTwelve ==
  (InSelector /\ pc # "entry" /\ input_array = SelInput(20, 3, 12, 12)) =>
    (SharedTotal(input_array) = 240 /\ Returned("sequential-stereo"))

\* C6: with exactly one camera the global solver never returns a result: the
\* call stops, in an exception, at the stereo step at the latest.
C6_SingleCameraFatal ==
  (fn \in {"common_pose_estimation", "multi_camera_pose_estimation"}
   /\ num_cameras = 1) =>
    /\ pc \in {"entry", "filter", "undistort", "stereo", "raised"}
    /\ ret = None
    /\ (~ENABLED Next) => (pc = "raised" /\ err # NoError)

\* C6's case: one camera, captures accepted and undistorted, and the call
\* raised where it picks the secondary camera
C6_Witness ==
  /\ InCommon /\ num_cameras = 1
  /\ Len(filtered_object_points) >= 1
  /\ pc = "raised" /\ err = [type |-> "IndexError", line |-> 500]

\* a reprojection error above 1.0
ExceedsOne(e) == e[1] > e[2]

ResultKeys == {"kind", "serials", "world_locations", "world_orientations",
               "path", "filename", "dicts"}

InDetector == fn = "charuco_board_detector"

\* the per-camera image lists all have the same length
SameLength(counts) == \A a \in DOMAIN counts, b \in DOMAIN counts : counts[a] = counts[b]

\* C8: charuco_board_detector raises its 'unequal size' exception exactly
\* when the image lists do not all have the same length, for any number of
\* cameras, and then no image has been read and no detection made.
C8_UnequalListsFatal ==
  (InDetector /\ pc # "entry") =>
    /\ (err = [type |-> "Exception", line |-> 63]) <=> ~SameLength(cam_image_list)
    /\ (~SameLength(cam_image_list)) =>
         /\ pc = "raised"
         /\ images_read = {} /\ cam_charuco_ids = <<>> /\ cam_image_points = <<>>

\* C8's case: three or more image lists, unequal, the first as long as the
\* mean, and the call raised
C8_Witness ==
  /\ InDetector /\ pc = "raised"
  /\ Len(cam_image_list) >= 3
  /\ ~SameLength(cam_image_list)
  /\ cam_image_list[1] * Len(cam_image_list) = SumSeq(cam_image_list)

\* C9: a corner id that is no index of the target model, in any camera's
\* detection of any capture, aborts common_pose_estimation with no result,
\* and is never counted as a visible corner of the target.
C9_InvalidIdFatal ==
  (InCommon /\ seen_invalid_id) =>
    /\ pc = "raised" /\ ret = None
    /\ \A c \in Corners, icam \in Cameras(num_cameras) :
         point_logit[c, icam] => c \in Range(detl[icam].ids)

\* v is the `part` ("rvec" or "tvec") of the pose PnP solved for camera i:
\* from the triangulated points, camera i's own points and intrinsics
SolvedFor(v, part, i) ==
  /\ v[1] = part
  /\ v[2] \in DOMAIN pnp_calls
  /\ pnp_calls[v[2]].cameraMatrix = i
  /\ pnp_calls[v[2]].imagePoints = Flatten(filtered_image_points[i])
  /\ pnp_calls[v[2]].objectPoints = triangulated_points

\* C10: a result returned by common_pose_estimation holds exactly one
\* PnP-solved pose per camera, the reference camera included:
\* world_locations[i] and world_orientations[i] are the pose solved for
\* camera i, and dicts[serial] holds the pose of the camera at the serial's
\* index in the serial list.
C10_OnePosePerCamera ==
  (InCommon /\ pc = "returned") =>
    /\ Len(pnp_calls) = num_cameras
    /\ Len(ret.world_locations) = num_cameras
    /\ Len(ret.world_orientations) = num_cameras
    /\ \A i \in Cameras(num_cameras) :
         /\ SolvedFor(ret.world_locations[i + 1], "tvec", i)
         /\ SolvedFor(ret.world_orientations[i + 1], "rvec", i)
    /\ DOMAIN ret.dicts = Range(serials)
    /\ \A i \in Cameras(num_cameras) :
         /\ ret.dicts[serials[i + 1]].serial = serials[i + 1]
         /\ SolvedFor(ret.dicts[serials[i + 1]].world_location, "tvec", i)
         /\ SolvedFor(ret.dicts[serials[i + 1]].world_orientation, "rvec", i)

\* C10's case: a result for three or more cameras, the last the reference
C10_Witness ==
  /\ InCommon /\ pc = "returned"
  /\ num_cameras >= 3
  /\ ireference_cam = num_cameras - 1
  /\ DOMAIN ret.dicts = Range(serials)

InAuto == fn = "auto_pose_estimation"

\* C11: a run of auto_pose_estimation that has left UNSTARTED goes on, in
\* order and once each, through FILTERED and a solver state to RESULT_READY:
\* it has chosen its strategy and it ends by returning the poses, never in
\* an exception raised before the detections were filtered.
C11_RunReachesResult ==
  (InAuto /\ pc # "entry") =>
    /\ pc = "returned"
    /\ ret \notin {None, EmptyList}

InOneShot == fn = "one_shot_multi_PnP"

\* cv2.imread was given the file f as camera icam's image
ReadFor(icam, f) ==
  \E j \in DOMAIN im_path : im_path[j].cam = icam /\ im_path[j].file = f

\* the user was shown the file dialog for camera icam
AskedFor(icam) == \E j \in DOMAIN asked : asked[j].cam = icam

\* C13: in one_shot_multi_PnP the user is asked exactly for the cameras whose
\* name is in more than one file name; the file chosen is then the image read
\* for that camera and the choice raises no exception, so the loop goes on to
\* the camera's pose and the later cameras; a camera whose name is in exactly
\* one file name has that file read without a dialog.
C13_SelectedImageUsed ==
  InOneShot =>
    /\ \A j \in DOMAIN asked :
         /\ im_name_len[asked[j].cam] > 1
         /\ ReadFor(asked[j].cam, asked[j].chosen)
         /\ err # [type |-> "TypeError", line |-> 347]
    /\ \A j \in DOMAIN im_path :
         im_name_len[im_path[j].cam] = 1 =>
           /\ im_path[j].file = ImFile(im_path[j].cam, 0)
           /\ ~AskedFor(im_path[j].cam)

\* cv2.stereoCalibrate has been called and has reported its error
StereoDone == DOMAIN stereo_call # {} /\ reprojection_error # <<>>

\* C14: in common_pose_estimation nothing is triangulated before the stereo
\* calibration has completed, no PnP call is made before the triangulation
\* has completed, and every PnP call made is given the one triangulated point
\* set, in its order.
C14_StereoThenTriangulateThenPnP ==
  InCommon =>
    /\ pc \in {"entry", "filter", "undistort", "stereo"} =>
         ~StereoDone /\ triangulated_points = <<>> /\ pnp_calls = <<>>
    /\ pc = "triangulate" =>
         StereoDone /\ triangulated_points = <<>> /\ pnp_calls = <<>>
    /\ triangulated_points # <<>> => StereoDone
    /\ pnp_calls # <<>> => triangulated_points # <<>>
    /\ \A j \in DOMAIN pnp_calls :
         pnp_calls[j].objectPoints = triangulated_points

\* C14's case: three or more cameras solved by PnP, on different image points
C14_Witness ==
  /\ InCommon /\ pc = "pnp"
  /\ Len(pnp_calls) >= 3
  /\ pnp_calls[1].imagePoints # pnp_calls[3].imagePoints
  /\ Len(triangulated_points) >= MinCommonPoints

\* position k of the flat 2D array fi comes before position k + 1: an
\* earlier capture, or the same capture and a lower corner id
InOrder(fi, k) ==
  \/ fi[k].image < fi[k + 1].image
  \/ fi[k].image = fi[k + 1].image /\ fi[k].corner < fi[k + 1].corner

\* C15: after every pass of the filter loop of common_pose_estimation, and
\* when the loop is over and the flat arrays are built (the arrays do not
\* change afterwards), the filtered arrays hold one entry per accepted
\* capture, in capture order, of that capture's shared-corner count;
\* flattened, the 3D array and every camera's 2D array have the sum of those
\* counts as length, run through the captures in input order and through each
\* capture's corner ids ascending, and position k of each is the same capture
\* and corner id (and what is undistorted keeps that order).
C15_FlatOrderAndAlignment ==
  (InCommon /\ pc \in {"filter", "undistort", "stereo"}) =>
    \A fo \in {Flatten(filtered_object_points)},
       flat \in {[icam \in Cameras(num_cameras) |->
                   Flatten(filtered_image_points[icam])]} :
      /\ Len(filtered_object_points) = Len(shared_counts)
      /\ \A j \in DOMAIN shared_counts :
           Len(filtered_object_points[j]) = shared_counts[j]
      /\ Len(fo) = SumSeq(shared_counts)
      /\ \A icam \in Cameras(num_cameras) :
           /\ Len(flat[icam]) = Len(fo)
           /\ \A k \in DOMAIN fo :
                /\ flat[icam][k].cam = icam
                /\ flat[icam][k].image < image
                /\ fo[k] = world_points[flat[icam][k].corner]
                /\ \A other \in Cameras(num_cameras) :
                     /\ flat[other][k].image = flat[icam][k].image
                     /\ flat[other][k].corner = flat[icam][k].corner
           /\ \A k \in 1..(Len(fo) - 1) : InOrder(flat[icam], k)
           /\ pc = "stereo" =>
                /\ Len(undistorted_points[icam]) = Len(fo)
                /\ \A k \in DOMAIN fo :
                     undistorted_points[icam][k].und = flat[icam][k]

\* C15's case: two captures accepted with different shared-corner counts from
\* cameras whose id arrays differ, the last one's descending, and the flat
\* arrays built
C15_Witness ==
  /\ InCommon /\ pc = "stereo"
  /\ num_cameras >= 2
  /\ Len(shared_counts) = 2
  /\ shared_counts[1] # shared_counts[2]
  /\ \E a \in Cameras(num_cameras), b \in Cameras(num_cameras) :
       /\ detl[a].ids # detl[b].ids
       /\ detl[a].ids[1] > detl[a].ids[2]

\* the point of the capture's points pts that was detected for corner id c
PointOfCorner(pts, c) == pts[CHOOSE k \in DOMAIN pts : pts[k].corner = c]

\* C16: a pass of the filter over a capture whose ids are all corners of the
\* target and of which fewer than 6 are shared raises nothing, prints nothing,
\* leaves the filtered arrays as they were and goes on to the next capture;
\* and what a pass appends for an accepted capture is made of that capture's
\* own detections alone, so the filtered arrays are those of the capture list
\* without the dropped captures.
C16_DropLeavesOthers ==
  [][ (InCommon /\ pc = "filter" /\ ~HasInvalidId(detl')) =>
        \A shared \in {SortedSeq(OccursInAll(detl', Corners))} :
           IF Len(shared) < MinCommonPoints
           THEN /\ pc' = (IF image' < num_captures THEN "filter" ELSE "undistort")
                /\ err' = NoError
                /\ stdout' = stdout
                /\ filtered_object_points' = filtered_object_points
                /\ filtered_image_points' = filtered_image_points
           ELSE /\ pc' # "raised"
                /\ filtered_object_points' =
                     Append(filtered_object_points,
                            [r \in DOMAIN shared |-> world_points[shared[r]]])
                /\ \A icam \in Cameras(num_cameras) :
                     filtered_image_points'[icam] =
                       Append(filtered_image_points[icam],
                              [r \in DOMAIN shared |->
                                 PointOfCorner(cip'[icam], shared[r])]) ]_vars

\* C16's case: the first capture was accepted, the second, in which a camera
\* detected nothing, was dropped, and the loop ended with the first capture's
\* correspondences in place
C16_Witness ==
  /\ InCommon /\ pc = "undistort" /\ image = 2 /\ err = NoError
  /\ num_cameras >= 2
  /\ ~HasInvalidId(detl)
  /\ \E icam \in Cameras(num_cameras) : ~detl[icam].isarray
  /\ \E icam \in Cameras(num_cameras) : detl[icam].isarray
  /\ Len(filtered_object_points) = 1
  /\ \A icam \in Cameras(num_cameras) :
       /\ Len(filtered_image_points[icam]) = 1
       /\ filtered_image_points[icam][1][1].image = 0

\* the entry of ids and the entry of image points at [img][icam] are camera
\* icam's: both empty placeholders, or an id array and, id for id, the pixels
\* of camera icam in image img
EntryOfCamera(ids, pts, img, icam) ==
  IF ids.isarray
  THEN /\ Len(ids.ids) > 0
       /\ Len(pts) = Len(ids.ids)
       /\ \A k \in DOMAIN pts : pts[k] = Pixel(img, icam, ids.ids[k])
  ELSE ids = Placeholder /\ pts = <<>>

\* C17: both outputs of charuco_board_detector hold, for every image read,
\* exactly one entry per camera, at the camera's index in the camera list:
\* the camera's own detection, or an empty placeholder when it detected
\* nothing; and the call returns one such row per synced image.
C17_OneEntryPerCamera ==
  InDetector =>
    /\ Len(cam_image_points) = Len(cam_charuco_ids)
    /\ \A img \in DOMAIN cam_charuco_ids :
         /\ DOMAIN cam_charuco_ids[img] = Cameras(num_cameras)
         /\ DOMAIN cam_image_points[img] = Cameras(num_cameras)
         /\ \A icam \in Cameras(num_cameras) :
              /\ <<icam, img - 1>> \in images_read
              /\ EntryOfCamera(cam_charuco_ids[img][icam],
                               cam_image_points[img][icam], img - 1, icam)
    /\ pc = "returned" =>
         /\ ret.cam_charuco_ids = cam_charuco_ids
         /\ ret.cam_image_points = cam_image_points
         /\ Len(cam_charuco_ids) = cam_image_list[1]

\* C17's case: returned rows of three or more cameras, in one of which the
\* first camera has a placeholder and the last a detection, in another the
\* reverse
C17_Witness ==
  /\ InDetector /\ pc = "returned"
  /\ num_cameras >= 3
  /\ Len(ret.cam_charuco_ids) >= 2
  /\ ~ret.cam_charuco_ids[1][0].isarray
  /\ ret.cam_charuco_ids[1][num_cameras - 1].isarray
  /\ ret.cam_image_points[1][num_cameras - 1][1].cam = num_cameras - 1
  /\ ret.cam_charuco_ids[2][0].isarray
  /\ ~ret.cam_charuco_ids[2][num_cameras - 1].isarray

\* the j-th PnP call of one_shot_multi_PnP is camera j-1's: its object points
\* are the target's points of the camera's own detected ids, in detection
\* order, and its image points the camera's own pixels of those ids
OwnPnPCall(j) ==
  \A ids \in {charuco_ids[j].ids} :
    /\ pnp_calls[j].cameraMatrix = j - 1
    /\ Len(pnp_calls[j].objectPoints) = Len(ids)
    /\ Len(pnp_calls[j].imagePoints) = Len(ids)
    /\ \A k \in DOMAIN ids :
         /\ pnp_calls[j].objectPoints[k] = world_points[ids[k]]
         /\ pnp_calls[j].imagePoints[k] =
              UndistortPoint(j - 1, Pixel(0, j - 1, ids[k]))

\* C18: in one_shot_multi_PnP every PnP call is given the target's 3D points
\* of that camera's own detected corner ids, in detection order and as many
\* as its 2D points, whatever the other cameras detected; and a result
\* returned holds, at index i and under the i-th serial, the pose solved by
\* the call for camera i.
C18_OwnPointsPerCamera ==
  InOneShot =>
    /\ Len(world_locations) = Len(pnp_calls)
    /\ Len(world_orientations) = Len(pnp_calls)
    /\ Len(pnp_calls) <= Len(charuco_ids)
    /\ \A j \in DOMAIN pnp_calls : OwnPnPCall(j)
    /\ pc = "returned" =>
         /\ Len(ret.world_locations) = num_cameras
         /\ Len(ret.world_orientations) = num_cameras
         /\ DOMAIN ret.dicts = Range(serials)
         /\ \A i \in Cameras(num_cameras) :
              /\ ret.world_locations[i + 1] = <<"tvec", i + 1>>
              /\ ret.world_orientations[i + 1] = <<"rvec", i + 1>>
              /\ ret.dicts[serials[i + 1]].serial = serials[i + 1]
              /\ ret.dicts[serials[i + 1]].world_location = <<"tvec", i + 1>>
              /\ ret.dicts[serials[i + 1]].world_orientation = <<"rvec", i + 1>>

\* C18's case: a result for three or more cameras that detected different
\* ids, one of them in an order that is not ascending
C18_Witness ==
  /\ InOneShot /\ pc = "returned"
  /\ num_cameras >= 3
  /\ charuco_ids[1].ids = <<NumCorners - 1, 0, 1>>
  /\ charuco_ids[2] # charuco_ids[1]
  /\ charuco_ids[3] # charuco_ids[2]
  /\ Len(ret.world_locations) = num_cameras

\* C19: when the filter loop of common_pose_estimation is over and no capture
\* was accepted (the capture list was empty or every capture was dropped),
\* the call ends in an exception: no stereo calibration, triangulation or PnP
\* call is made and nothing is returned.
C19_NoAcceptedCaptureFatal ==
  (InCommon /\ pc \notin {"entry", "filter"} /\ filtered_object_points = <<>>) =>
    /\ pc \in {"undistort", "raised"}
    /\ ~StereoDone /\ DOMAIN stereo_call = {}
    /\ triangulated_points = <<>>
    /\ pnp_calls = <<>>
    /\ ret = None
    /\ (~ENABLED Next) => (pc = "raised" /\ err # NoError)

\* C19's case: two or more cameras, every capture of a list of two dropped,
\* and the call raised where it stacks the (empty) filtered points
C19_Witness ==
  /\ InCommon /\ num_cameras >= 2
  /\ num_captures >= 2 /\ image = num_captures
  /\ filtered_object_points = <<>>
  /\ pc = "raised" /\ err = [type |-> "ValueError", line |-> 496]

\* the index, in the serial list, of the reference camera's serial
ReferenceIndex ==
  CHOOSE i \in Cameras(num_cameras) : serials[i + 1] = reference_camera_serial

\* the lowest index of a camera other than the reference camera
LowestOther ==
  CHOOSE i \in Cameras(num_cameras) \ {ReferenceIndex} :
    \A j \in Cameras(num_cameras) \ {ReferenceIndex} : i <= j

\* C20: in common_pose_estimation a reference serial that is not in the
\* serial list raises before any capture is filtered; with two or more
\* cameras the stereo calibration is given the points and intrinsics of
\* exactly two cameras, the reference camera and the camera of lowest index
\* that is not the reference, and the triangulation pairs the undistorted
\* points of the same two cameras.
C20_ReferencePair ==
  InCommon =>
    /\ reference_camera_serial \notin Range(serials) =>
         /\ pc \in {"entry", "raised"}
         /\ image = 0 /\ detl = <<>>
         /\ pc = "raised" => err = [type |-> "ValueError", line |-> 446]
    /\ (num_cameras >= 2 /\ StereoDone) =>
         /\ secondary_cam # ReferenceIndex
         /\ stereo_call =
              [objectPoints |-> filtered_object_points,
               imagePoints1 |-> filtered_image_points[ReferenceIndex],
               imagePoints2 |-> filtered_image_points[LowestOther],
               cameraMatrix1 |-> ReferenceIndex,
               cameraMatrix2 |-> LowestOther]
         /\ triangulated_points # <<>> =>
              /\ Len(triangulated_points) = Len(undistorted_points[ReferenceIndex])
              /\ \A k \in DOMAIN triangulated_points :
                   triangulated_points[k] =
                     TriPoint(undistorted_points[ReferenceIndex][k],
                              undistorted_points[LowestOther][k])

\* C20's case: three or more cameras, the reference the first of the list,
\* and the points triangulated from the first and the second camera
C20_Witness ==
  /\ InCommon /\ num_cameras >= 3
  /\ ireference_cam = 0 /\ secondary_cam = 1
  /\ stereo_call.cameraMatrix2 = 1
  /\ triangulated_points # <<>>
  /\ triangulated_points[1].secondary.K = 1

====
